---- MODULE Spec2Model ----
(***************************************************************************)
(* A model of src/main.py: the BOJ workbook progress viewer.               *)
(*                                                                         *)
(* The program is one asyncio event loop.  A request handler runs without  *)
(* interruption from one await to the next, so every action below is one   *)
(* such synchronous segment of a handler, with all the calls it makes.     *)
(*                                                                         *)
(*   - admin_add_problem has one await (problem_exists, line 246);         *)
(*   - admin_delete_problem has none: it is a single segment;              *)
(*   - index awaits once per page inside get_solved_set;                   *)
(*   - compute_progress awaits once per problem (get_problem_info).        *)
(*                                                                         *)
(* The admin handlers are the only writers of WORKBOOKS and of the file;   *)
(* index and compute_progress only read WORKBOOKS.  The three groups of    *)
(* handlers are therefore checked under a specification each (Spec,        *)
(* SpecIndex, SpecProgress) over the same variables.  SpecConcurrent runs  *)
(* the admin handlers between the awaits of compute_progress, SpecStable   *)
(* runs index against a backend that does not change, SpecRoundTrip notes  *)
(* the list before an add, and SpecTier calls convert_tier on its own.     *)
(***************************************************************************)
EXTENDS Integers, Sequences, FiniteSets, Bags, TLC

VARIABLES
    WORKBOOKS,   \* main.py:16   workbook key -> its "problems" list
    file,        \* workbooks.json on disk: [complete, doc]
    lastSave,    \* outcome of the latest save_workbooks_to_file call
    pending,     \* the add requests awaiting problem_exists: a bag of <<key, id>>
    resp,        \* the latest admin request that ended, and how
    idx,         \* the index request (with its get_solved_set call)
    cp,          \* a compute_progress call that is awaited
    tierCall,    \* the latest convert_tier call: its argument and what it did
    backend,     \* the search backend a get_solved_set call talks to
    roundTrip    \* the latest add that was saved, and the delete that undid it

adminVars == <<WORKBOOKS, file, lastSave, pending, resp>>
callVars == <<tierCall, backend, roundTrip>>
vars ==
    <<WORKBOOKS, file, lastSave, pending, resp, idx, cp,
      tierCall, backend, roundTrip>>

(***************************************************************************)
(* Bounds and sample inputs                                                *)
(***************************************************************************)
\* longest "problems" list of the loaded JSON document
MaxLen == 3

\* main.py:238  the smallest accepted problem number
MinProblemId == 1000

ProblemIds == {MinProblemId, MinProblemId + 1, MinProblemId + 2}

\* keys of the loaded document; "nokey" is a key the document lacks
Keys == {"basics"}
WorkbookInputs == Keys \cup {"nokey"}

\* main.py:25
ADMIN_KEY == "lenamayer28"

\* at most this many add requests wait for problem_exists at once: the two
\* concurrent requests the races are about
Slots == {"A", "B"}

\* raw problem_id form fields, as sequences of characters
RawIds ==
    { <<"1","0","0","0">>, <<"1","0","0","1">>, <<" ","1","0","0","2"," ">>,
      <<"9","9","9">>, <<"1","2","a">>, << >> }

\* the form fields of an admin request: <<admin_key, problem_id, workbook>>;
\* with a wrong admin key, one good and one bad problem id
AdminRequests ==
    ({ADMIN_KEY} \X RawIds \X WorkbookInputs)
    \cup ({"guess"} \X {<<"1","0","0","0">>, <<"1","2","a">>} \X WorkbookInputs)

(***************************************************************************)
(* Python built-ins the handlers use                                       *)
(***************************************************************************)
Digits == {"0","1","2","3","4","5","6","7","8","9"}
Whitespace == {" ", "\t", "\n"}

DigitVal(c) ==
    CASE c = "0" -> 0 [] c = "1" -> 1 [] c = "2" -> 2 [] c = "3" -> 3
      [] c = "4" -> 4 [] c = "5" -> 5 [] c = "6" -> 6 [] c = "7" -> 7
      [] c = "8" -> 8 [] c = "9" -> 9

\* str.strip(): leading and trailing whitespace removed
RECURSIVE LStrip(_)
LStrip(s) ==
    IF s # << >> /\ Head(s) \in Whitespace THEN LStrip(Tail(s)) ELSE s

RECURSIVE RStrip(_)
RStrip(s) ==
    IF s # << >> /\ s[Len(s)] \in Whitespace
    THEN RStrip(SubSeq(s, 1, Len(s) - 1)) ELSE s

Strip(s) == RStrip(LStrip(s))

\* str.isdecimal(): non-empty and every character a decimal digit
IsDecimal(s) == s # << >> /\ \A i \in 1..Len(s) : s[i] \in Digits

\* int(s) of a decimal string
RECURSIVE ParseInt(_)
ParseInt(s) ==
    IF s = << >> THEN 0
    ELSE 10 * ParseInt(SubSeq(s, 1, Len(s) - 1)) + DigitVal(s[Len(s)])

\* Contains looking at the first element only
Contains_HeadOnly(list, x) == list # << >> /\ Head(list) = x

\* x in list
Contains(list, x) == \E i \in 1..Len(list) : list[i] = x

\* list.append(x)
ListAppend(list, x) == Append(list, x)

\* list.remove(x): the first occurrence of x removed
RECURSIVE ListRemove(_, _)
ListRemove(list, x) ==
    IF list = << >> THEN << >>
    ELSE IF Head(list) = x THEN Tail(list)
    ELSE <<Head(list)>> \o ListRemove(Tail(list), x)

\* list.sort(): ascending, duplicates kept (insertion sort)
RECURSIVE InsertSorted(_, _)
InsertSorted(list, x) ==
    IF list = << >> THEN <<x>>
    ELSE IF x <= Head(list) THEN <<x>> \o list
    ELSE <<Head(list)>> \o InsertSorted(Tail(list), x)

RECURSIVE ListSort(_)
ListSort(list) ==
    IF list = << >> THEN << >>
    ELSE InsertSorted(ListSort(Tail(list)), Head(list))

\* the form field read once: problem_id.strip(), .isdecimal(), int(...)
ReadProblemId ==
    [raw \in RawIds |->
        LET t == Strip(raw) IN
        [isdecimal |-> IsDecimal(t),
         pid_int |-> IF IsDecimal(t) THEN ParseInt(t) ELSE 0]]

(***************************************************************************)
(* Messages of the admin handlers (the literals of main.py, in English)    *)
(***************************************************************************)
None == "None"
MsgBadAdminKey == "invalid admin key"
MsgBadProblemId == "problem number must be an integer >= 1000"
MsgNoWorkbook == "workbook does not exist"
MsgNotOnJudge == "problem does not exist on BOJ"
MsgAlreadyPresent == "problem already in workbook"
MsgAdded == "problem added to workbook"
MsgNotInWorkbook == "problem is not in workbook"
MsgDeleted == "problem deleted from workbook"

(***************************************************************************)
(* The workbook store                                                      *)
(***************************************************************************)
\* every list over ProblemIds of length at most n
ListsUpTo(n) == UNION { [1..k -> ProblemIds] : k \in 0..n }

\* what json.load may return: any list per key, sorted or not, with or
\* without repeated ids (the document is written by hand, never validated)
LoadedCollections == [Keys -> ListsUpTo(MaxLen)]

Snapshot(coll) == [complete |-> TRUE, doc |-> coll]

\* save_workbooks_to_file(): open(..., "w") truncates the document and
\* json.dump then writes the whole collection.  The outcome is the
\* environment's: "ok", or "write_failed" (the write raises, or the process
\* is stopped, after the truncation: a strict prefix of the document is on
\* disk, and the handler ends with the exception).
SaveOutcomes == {"ok", "write_failed"}

SaveWorkbooksToFile(coll, old, outcome) ==
    CASE outcome = "ok" -> Snapshot(coll)
      [] outcome = "write_failed" -> [complete |-> FALSE, doc |-> coll]

(***************************************************************************)
(* Admin handlers                                                          *)
(***************************************************************************)
NoResp ==
    [op |-> None, admin_error |-> None, admin_message |-> None,
     trace |-> << >>, raised |-> FALSE]

\* Validate with the workbook key looked up before the problem number is read
Validate_WorkbookFirst(admin_key, raw, workbook, books) ==
    IF admin_key # ADMIN_KEY
    THEN [error |-> MsgBadAdminKey, trace |-> <<"admin_key">>]
    ELSE IF workbook \notin DOMAIN books
    THEN [error |-> MsgNoWorkbook,
          trace |-> <<"admin_key", "problem_id", "workbook">>]
    ELSE IF ~ReadProblemId[raw].isdecimal \/ ReadProblemId[raw].pid_int < MinProblemId
    THEN [error |-> MsgBadProblemId, trace |-> <<"admin_key", "problem_id">>]
    ELSE [error |-> None, trace |-> <<"admin_key", "problem_id", "workbook">>]

\* Steps 1 to 3 of both handlers: the admin key, the problem number, the
\* workbook key, in this order.  The result is the error message (None when
\* all three pass) and the checks that were evaluated.
Validate(admin_key, raw, workbook, books) ==
    IF admin_key # ADMIN_KEY
    THEN [error |-> MsgBadAdminKey, trace |-> <<"admin_key">>]
    ELSE IF ~ReadProblemId[raw].isdecimal
    THEN [error |-> MsgBadProblemId, trace |-> <<"admin_key", "problem_id">>]
    ELSE IF ReadProblemId[raw].pid_int < MinProblemId
    THEN [error |-> MsgBadProblemId, trace |-> <<"admin_key", "problem_id">>]
    ELSE IF workbook \notin DOMAIN books
    THEN [error |-> MsgNoWorkbook,
          trace |-> <<"admin_key", "problem_id", "workbook">>]
    ELSE [error |-> None, trace |-> <<"admin_key", "problem_id", "workbook">>]

\* SolvedAcClient.problem_exists: what the lookup ended with
ExistsOutcomes == {"200", "404", "500", "http_error"}
ProblemExists(outcome) == outcome = "200"

\* Respond with admin_message not handed to the template
Respond_NoMessage(op, err, msg, trace) ==
    [op |-> op, admin_error |-> err, admin_message |-> None, trace |-> trace,
     raised |-> FALSE]

\* the request ends with the template response
Respond(op, err, msg, trace) ==
    [op |-> op, admin_error |-> err, admin_message |-> msg, trace |-> trace,
     raised |-> FALSE]

\* the request ends with an exception out of the handler (no response body)
Raise(op, trace) ==
    [op |-> op, admin_error |-> None, admin_message |-> None, trace |-> trace,
     raised |-> TRUE]

\* Reject with the collection written to the file all the same
Reject_Saves(op, err, msg, trace) ==
    /\ resp' = Respond(op, err, msg, trace)
    /\ file' = SaveWorkbooksToFile(WORKBOOKS, file, "ok")
    /\ lastSave' = "ok"
    /\ UNCHANGED WORKBOOKS

\* a request that ends at a failed check (or at "already present"): the
\* message is set, and neither the collection nor the file is touched
Reject(op, err, msg, trace) ==
    /\ resp' = Respond(op, err, msg, trace)
    /\ UNCHANGED <<WORKBOOKS, file, lastSave>>

\* the add requests that wait for problem_exists
NumPending == BagCardinality(pending)

\* Commit with the call of save_workbooks_to_file left out
Commit_NoSave(op, workbook, newlist, trace, msg, save) ==
    /\ WORKBOOKS' = [WORKBOOKS EXCEPT ![workbook] = newlist]
    /\ resp' = Respond(op, None, msg, trace)
    /\ UNCHANGED <<file, lastSave>>

\* mutation and persist of both handlers: the list is replaced, the whole
\* collection saved, and the success message returned (or the save raises)
Commit(op, workbook, newlist, trace, msg, save) ==
    /\ WORKBOOKS' = [WORKBOOKS EXCEPT ![workbook] = newlist]
    /\ file' = SaveWorkbooksToFile(WORKBOOKS', file, save)
    /\ lastSave' = save
    /\ resp' = IF save = "ok"
               THEN Respond(op, None, msg, trace \o <<"save">>)
               ELSE Raise(op, trace \o <<"save">>)

\* admin_add_problem, up to its await of problem_exists
AddStart(admin_key, raw, workbook) ==
    /\ NumPending < Cardinality(Slots)
    /\ LET v == Validate(admin_key, raw, workbook, WORKBOOKS) IN
       IF v.error # None
       THEN /\ Reject("add", v.error, None, v.trace)
            /\ UNCHANGED pending
       ELSE /\ pending' = pending (+) SetToBag({<<workbook, ReadProblemId[raw].pid_int>>})
            /\ UNCHANGED <<resp, WORKBOOKS, file, lastSave>>

\* AddToList with the sort left out
AddToList_NoSort(problems, pid) == ListAppend(problems, pid)

\* the list after step 5 of admin_add_problem appended: append, then sort
AddToList(problems, pid) == ListSort(ListAppend(problems, pid))

\* AlreadyPresent with the membership test left out
AlreadyPresent_Never(problems, pid) == FALSE

\* pid_int in problems, of admin_add_problem
AlreadyPresent(problems, pid) == Contains(problems, pid)

\* admin_add_problem, from the answer of problem_exists to the response
AddResume(workbook, pid, outcome) ==
    /\ BagIn(<<workbook, pid>>, pending)
    /\ pending' = pending (-) SetToBag({<<workbook, pid>>})
    /\ LET upto4 == <<"admin_key", "problem_id", "workbook", "problem_exists">> IN
       IF ~ProblemExists(outcome)
       THEN Reject("add", MsgNotOnJudge, None, upto4)
       ELSE IF AlreadyPresent(WORKBOOKS[workbook], pid)
       THEN Reject("add", None, MsgAlreadyPresent, upto4 \o <<"membership">>)
       ELSE \E save \in SaveOutcomes :
                Commit("add", workbook, AddToList(WORKBOOKS[workbook], pid),
                       upto4 \o <<"membership">>, MsgAdded, save)

\* DeleteFromList taking the last element off, whatever the id
DeleteFromList_Pop(problems, pid) == SubSeq(problems, 1, Len(problems) - 1)

\* the list after admin_delete_problem removed: remove, nothing else
DeleteFromList(problems, pid) == ListRemove(problems, pid)

\* admin_delete_problem: it awaits nothing, so it is one segment
DeleteProblem(admin_key, raw, workbook) ==
    /\ LET v == Validate(admin_key, raw, workbook, WORKBOOKS)
           pid == ReadProblemId[raw].pid_int
       IN
       IF v.error # None
       THEN Reject("delete", v.error, None, v.trace)
       ELSE IF ~Contains(WORKBOOKS[workbook], pid)
       THEN Reject("delete", MsgNotInWorkbook, None, v.trace \o <<"membership">>)
       ELSE \E save \in SaveOutcomes :
                Commit("delete", workbook, DeleteFromList(WORKBOOKS[workbook], pid),
                       v.trace \o <<"membership">>, MsgDeleted, save)
    /\ UNCHANGED pending


(***************************************************************************)
(* SolvedAcClient.get_solved_set and the index handler                     *)
(***************************************************************************)
\* largest "count" a search response reports
MaxTotal == 3
\* most items on one page of a search response
MaxPerPage == 2
\* a cap on the page counter: a loop that wants a page past it is parked at
\* pc = "beyond_cap" and never ends
MaxPages == MaxTotal + 2

\* "problemId" of a search item: 0 stands for a missing or zero id
ItemIds == {0, MinProblemId, MinProblemId + 1}

PagesOfItems == UNION { [1..k -> ItemIds] : k \in 0..MaxPerPage }

\* what one GET /search/problem may end with: a 200 with any items and any
\* count, another status (its body has no items and no count), or no
\* response at all (httpx.HTTPError out of client.get)
SearchResponses ==
    [status : {"200"}, items : PagesOfItems, count : 0..MaxTotal]
    \cup [status : {"500", "network_error"}, items : {<< >>}, count : {0}]

\* RaiseForStatus with the status never looked at
RaiseForStatus_Never(status) == FALSE

\* client.get raising, or resp.raise_for_status() raising
RaiseForStatus(status) == status # "200"

\* CollectIds with the set started again on every page
CollectIds_ThisPageOnly(solved, items) ==
    { items[i] : i \in { j \in 1..Len(items) : items[j] # 0 } }

\* for item in items: pid = item.get("problemId"); if pid: solved.add(pid)
CollectIds(solved, items) ==
    solved \cup { items[i] : i \in { j \in 1..Len(items) : items[j] # 0 } }

\* StopPaging with the comparison against the count left out
StopPaging_OnlyEmpty(per_page, page, total) == per_page = 0

\* if per_page == 0 or page * per_page >= total: break
StopPaging(per_page, page, total) == per_page = 0 \/ page * per_page >= total

HandleInputs == {None, "", "alice"}
IndexWorkbookInputs == {None, ""} \cup WorkbookInputs

\* Python truth of an Optional[str]
Truthy(x) == x # None /\ x # ""

Unbound == {-1}
NoProgress == [kind |-> "None"]
MsgBadWorkbookKey == "wrong workbook key"
MsgErrorOccurred == "an error occurred"

\* compute_progress(handle, workbook, solved_set) called and not awaited:
\* the value is the coroutine object, and the body of compute_progress
\* never runs
UnawaitedComputeProgress(handle, workbook, solved_set) ==
    [kind |-> "coroutine", handle |-> handle, workbook_key |-> workbook,
     solved_set |-> solved_set]

IdxIdle ==
    [pc |-> "idle", handle |-> None, workbook |-> None, page |-> 0,
     solved |-> {}, gs |-> "not_called", solved_set |-> Unbound,
     progress |-> NoProgress, error |-> None]

\* index, up to its first await (the first page of get_solved_set)
IndexStart(handle, workbook) ==
    /\ idx.pc # "paging"
    /\ idx' =
         IF ~(Truthy(handle) /\ Truthy(workbook))
         THEN [IdxIdle EXCEPT !.pc = "done", !.handle = handle,
                              !.workbook = workbook]
         ELSE IF workbook \notin DOMAIN WORKBOOKS
         THEN [IdxIdle EXCEPT !.pc = "done", !.handle = handle,
                              !.workbook = workbook, !.error = MsgBadWorkbookKey]
         ELSE [IdxIdle EXCEPT !.pc = "paging", !.handle = handle,
                              !.workbook = workbook, !.page = 1, !.gs = "running"]

\* get_solved_set from one page's response to the next await, or to the
\* end of index when the loop ends or the call raises
IndexPage(r) ==
    /\ idx.pc = "paging"
    /\ IF RaiseForStatus(r.status)
       THEN idx' = [idx EXCEPT !.pc = "done", !.gs = "raised", !.solved = {},
                               !.error = MsgErrorOccurred]
       ELSE LET solved == CollectIds(idx.solved, r.items) IN
            IF StopPaging(Len(r.items), idx.page, r.count)
            THEN idx' = [idx EXCEPT !.pc = "done", !.gs = "returned",
                            !.solved = {}, !.solved_set = solved,
                            !.progress = UnawaitedComputeProgress(
                                             idx.handle, idx.workbook, solved)]
            ELSE IF idx.page < MaxPages
            THEN idx' = [idx EXCEPT !.page = @ + 1, !.solved = solved]
            ELSE idx' = [idx EXCEPT !.pc = "beyond_cap"]

(***************************************************************************)
(* convert_tier and compute_progress                                       *)
(***************************************************************************)
TIER_NAMES == <<"bronze", "silver", "gold", "platinum", "diamond", "ruby">>

Unclassified == [raised |-> FALSE, band |-> "unclassified", level |-> 0]
IndexError == [raised |-> TRUE, band |-> None, level |-> 0]

\* convert_tier: the label is the band name followed by the level; a list
\* index outside -6..5 raises IndexError, a negative one counts from the end
ConvertTier(tier) ==
    IF tier = 0 THEN Unclassified
    ELSE LET group == (tier - 1) \div 5
             level == 5 - ((tier - 1) % 5)
         IN  IF group \in 0..5
             THEN [raised |-> FALSE, band |-> TIER_NAMES[group + 1], level |-> level]
             ELSE IF group \in (-6)..(-1)
             THEN [raised |-> FALSE, band |-> TIER_NAMES[group + 7], level |-> level]
             ELSE IndexError

\* difficulty ranks a /problem/show payload may carry
RankInputs == {0, 1, 31}

\* what one get_problem_info lookup may end with
InfoOutcomes ==
    [kind : {"http_error", "non200", "empty"}, level : {0}]
    \cup [kind : {"payload"}, level : RankInputs]

\* SolvedAcClient.get_problem_info: the payload (a one-element list), or a
\* falsy value (None, shown as the empty list) on any failure
GetProblemInfo(outcome) ==
    IF outcome.kind = "payload"
    THEN << [titleKo |-> "title", level |-> outcome.level] >>
    ELSE << >>

PlaceholderName == "(unknown)"

\* wb["name"] of the loaded document
WorkbookName(key) == "Basics"

\* Rate with the test of total left out
Rate_NoZeroTest(solved_cnt, total) == [num |-> solved_cnt * 100, den |-> total]

\* rate = solved_cnt / total * 100 if total else 0, as an exact fraction
Rate(solved_cnt, total) ==
    IF total # 0 THEN [num |-> solved_cnt * 100, den |-> total]
    ELSE [num |-> 0, den |-> 1]

\* the entry of one problem, or the exception convert_tier raised
MakeEntry(pid, info) ==
    IF info # << >>
    THEN LET item == info[1]
             t == ConvertTier(item.level)
         IN  [raised |-> t.raised, pid |-> pid, name |-> item.titleKo,
              tier |-> [band |-> t.band, level |-> t.level]]
    ELSE [raised |-> FALSE, pid |-> pid, name |-> PlaceholderName,
          tier |-> [band |-> Unclassified.band, level |-> Unclassified.level]]

Entry(e) == [pid |-> e.pid, name |-> e.name, tier |-> e.tier]

\* Classify with the problems left out whose lookup failed
Classify_DropUnknown(lists, e, solved_set) ==
    IF e.name = PlaceholderName THEN lists
    ELSE IF e.pid \in solved_set
    THEN [lists EXCEPT !.solved_in = Append(@, Entry(e))]
    ELSE [lists EXCEPT !.unsolved_in = Append(@, Entry(e))]

\* Classify with the entry put in front of its list
Classify_Prepend(lists, e, solved_set) ==
    IF e.pid \in solved_set
    THEN [lists EXCEPT !.solved_in = <<Entry(e)>> \o @]
    ELSE [lists EXCEPT !.unsolved_in = <<Entry(e)>> \o @]

\* if pid in solved_set: solved_in.append(entry) else: unsolved_in.append(entry)
Classify(lists, e, solved_set) ==
    IF e.pid \in solved_set
    THEN [lists EXCEPT !.solved_in = Append(@, Entry(e))]
    ELSE [lists EXCEPT !.unsolved_in = Append(@, Entry(e))]

\* lines 156 to 169: the result, from the lists and the workbook as it is now
ProgressResult(handle, key, lists, problems) ==
    [kind |-> "result", handle |-> handle, workbook_key |-> key,
     workbook_name |-> WorkbookName(key),
     total |-> Len(problems), solved_cnt |-> Len(lists.solved_in),
     rate |-> Rate(Len(lists.solved_in), Len(problems)),
     solved_list |-> lists.solved_in, unsolved_list |-> lists.unsolved_in]

NoLists == [solved_in |-> << >>, unsolved_in |-> << >>]

CpIdle ==
    [pc |-> "idle", handle |-> None, key |-> None, solved_set |-> {},
     i |-> 0, pid |-> 0, lists |-> NoLists, result |-> NoProgress]

\* compute_progress from the call to its first await; an empty workbook
\* returns at once
CallComputeProgress(handle, key, solved_set) ==
    /\ cp.pc # "awaiting"
    /\ LET problems == WORKBOOKS[key] IN
       cp' = IF Len(problems) = 0
             THEN [CpIdle EXCEPT !.pc = "returned", !.handle = handle,
                      !.key = key, !.solved_set = solved_set,
                      !.result = ProgressResult(handle, key, NoLists, problems)]
             ELSE [CpIdle EXCEPT !.pc = "awaiting", !.handle = handle,
                      !.key = key, !.solved_set = solved_set,
                      !.i = 1, !.pid = problems[1]]

\* compute_progress from the answer of get_problem_info to the next await,
\* or to the return; the for loop reads the list as it is at that moment
ResumeComputeProgress(outcome) ==
    /\ cp.pc = "awaiting"
    /\ LET e == MakeEntry(cp.pid, GetProblemInfo(outcome))
           lists == Classify(cp.lists, e, cp.solved_set)
           problems == WORKBOOKS[cp.key]
       IN
       cp' = IF e.raised
             THEN [cp EXCEPT !.pc = "raised"]
             ELSE IF cp.i + 1 <= Len(problems)
             THEN [cp EXCEPT !.i = @ + 1, !.pid = problems[cp.i + 1],
                             !.lists = lists]
             ELSE [cp EXCEPT !.pc = "returned", !.lists = lists,
                      !.result = ProgressResult(cp.handle, cp.key, lists, problems)]

(***************************************************************************)
(* convert_tier called on its own                                          *)
(***************************************************************************)
\* largest difficulty rank convert_tier is called with
MaxRank == 32

NoTierCall == [called |-> FALSE, tier |-> 0, result |-> Unclassified]

\* convert_tier(tier): the label it returns, or the IndexError it raises
CallConvertTier(tier) ==
    tierCall' = [called |-> TRUE, tier |-> tier, result |-> ConvertTier(tier)]

(***************************************************************************)
(* get_solved_set against a stable backend                                 *)
(***************************************************************************)
NoBackend == [ids |-> << >>, size |-> 0]

\* a backend that holds N results of a handle, N up to MaxTotal, with
\* distinct problem ids, and serves them in pages of a fixed size
StableBackends ==
    { [ids |-> [i \in 1..n |-> MinProblemId + i - 1], size |-> s] :
        n \in 0..MaxTotal, s \in 1..MaxPerPage }

\* the response of backend b to GET /search/problem with this page number:
\* the page's slice of the results, and the count N, on every page
Serve(b, page) ==
    LET first == (page - 1) * b.size + 1
        last == IF page * b.size < Len(b.ids) THEN page * b.size ELSE Len(b.ids)
    IN  [status |-> "200",
         items |-> IF first > Len(b.ids) THEN << >> ELSE SubSeq(b.ids, first, last),
         count |-> Len(b.ids)]

(***************************************************************************)
(* An add and the delete that undoes it                                    *)
(***************************************************************************)
NoRoundTrip == [phase |-> "none", key |-> None, pid |-> 0, before |-> << >>]

(***************************************************************************)
(* Specifications                                                          *)
(***************************************************************************)
Init ==
    /\ WORKBOOKS \in LoadedCollections
    /\ file = Snapshot(WORKBOOKS)
    /\ lastSave = "none"
    /\ pending = EmptyBag
    /\ resp = NoResp
    /\ idx = IdxIdle
    /\ cp = CpIdle
    /\ tierCall = NoTierCall
    /\ backend = NoBackend
    /\ roundTrip = NoRoundTrip

AdminAddStart ==
    /\ \E r \in AdminRequests : AddStart(r[1], r[2], r[3])
    /\ UNCHANGED <<idx, cp, callVars>>

AdminAddResume ==
    /\ \E w \in Keys, p \in ProblemIds, o \in ExistsOutcomes :
          AddResume(w, p, o)
    /\ UNCHANGED <<idx, cp, callVars>>

AdminDelete ==
    /\ \E r \in AdminRequests : DeleteProblem(r[1], r[2], r[3])
    /\ UNCHANGED <<idx, cp, callVars>>

IndexRequest ==
    /\ \E h \in HandleInputs, w \in IndexWorkbookInputs : IndexStart(h, w)
    /\ UNCHANGED <<adminVars, cp, callVars>>

IndexPageStep ==
    /\ \E r \in SearchResponses : IndexPage(r)
    /\ UNCHANGED <<adminVars, cp, callVars>>

ProgressCall ==
    /\ \E k \in Keys, S \in SUBSET ProblemIds :
          CallComputeProgress("alice", k, S)
    /\ UNCHANGED <<adminVars, idx, callVars>>

ProgressResume ==
    /\ \E o \in InfoOutcomes : ResumeComputeProgress(o)
    /\ UNCHANGED <<adminVars, idx, callVars>>

\* the admin handlers, two add requests at most in flight
Next == AdminAddStart \/ AdminAddResume \/ AdminDelete

Spec == Init /\ [][Next]_vars

\* the index handler; every awaited GET ends (the client's timeout is 10 s)
NextIndex == IndexRequest \/ IndexPageStep

SpecIndex == Init /\ [][NextIndex]_vars

FairIndex == SpecIndex /\ WF_vars(IndexPageStep)

\* compute_progress, awaited
NextProgress == ProgressCall \/ ProgressResume

SpecProgress == Init /\ [][NextProgress]_vars

\* admin requests that pass the three checks
ValidRequests ==
    { r \in AdminRequests :
        Validate(r[1], r[2], r[3], [k \in Keys |-> << >>]).error = None }

\* a user who solved nothing, and one who solved everything
SolvedNoneOrAll == {{}, ProblemIds}

\* a lookup that gave a payload of rank 1
LookupRank1 == {[kind |-> "payload", level |-> 1]}

\* an add request that arrives while compute_progress awaits a lookup
AddStartDuringProgress ==
    /\ cp.pc = "awaiting"
    /\ \E r \in ValidRequests : AddStart(r[1], r[2], r[3])
    /\ UNCHANGED <<idx, cp, callVars>>

AddResumeDuringProgress ==
    /\ cp.pc = "awaiting"
    /\ \E w \in Keys, p \in ProblemIds : AddResume(w, p, "200")
    /\ UNCHANGED <<idx, cp, callVars>>

\* a delete request that arrives while compute_progress awaits a lookup
DeleteDuringProgress ==
    /\ cp.pc = "awaiting"
    /\ \E r \in ValidRequests : DeleteProblem(r[1], r[2], r[3])
    /\ UNCHANGED <<idx, cp, callVars>>

\* the first compute_progress call after start-up
ProgressCallNoneOrAll ==
    /\ cp.pc = "idle"
    /\ \E k \in Keys, S \in SolvedNoneOrAll :
          CallComputeProgress("alice", k, S)
    /\ UNCHANGED <<adminVars, idx, callVars>>

\* the call goes on only when no add request is halfway: the admin
\* requests run to completion between two awaits of compute_progress
ProgressResumeRank1 ==
    /\ NumPending = 0
    /\ \E o \in LookupRank1 : ResumeComputeProgress(o)
    /\ UNCHANGED <<adminVars, idx, callVars>>

\* compute_progress with admin requests running between its awaits: the
\* admin handlers mutate the list object that the for loop of
\* compute_progress is iterating
NextConcurrent ==
    \/ ProgressCallNoneOrAll
    \/ ProgressResumeRank1
    \/ AddStartDuringProgress
    \/ AddResumeDuringProgress
    \/ DeleteDuringProgress

SpecConcurrent == Init /\ [][NextConcurrent]_vars

\* the add requests, with a note of the list as it was before the latest
\* add that was saved; any other change of a list clears the note
AddStartNoted ==
    /\ \E r \in ValidRequests : AddStart(r[1], r[2], r[3])
    /\ UNCHANGED <<idx, cp, callVars>>

AddResumeNoted ==
    /\ \E w \in Keys, p \in ProblemIds :
          /\ AddResume(w, p, "200")
          /\ roundTrip' =
                IF WORKBOOKS' = WORKBOOKS THEN roundTrip
                ELSE IF resp'.admin_message = MsgAdded
                THEN [phase |-> "added", key |-> w, pid |-> p,
                      before |-> WORKBOOKS[w]]
                ELSE NoRoundTrip
    /\ UNCHANGED <<idx, cp, tierCall, backend>>

\* the delete requests; a saved delete of the id that the noted add put in,
\* with no change of a list in between, completes the round trip
DeleteNoted ==
    /\ \E r \in ValidRequests :
          /\ DeleteProblem(r[1], r[2], r[3])
          /\ roundTrip' =
                IF WORKBOOKS' = WORKBOOKS THEN roundTrip
                ELSE IF /\ resp'.admin_message = MsgDeleted
                        /\ roundTrip.phase = "added"
                        /\ roundTrip.key = r[3]
                        /\ roundTrip.pid = ReadProblemId[r[2]].pid_int
                THEN [roundTrip EXCEPT !.phase = "restored"]
                ELSE NoRoundTrip
    /\ UNCHANGED <<idx, cp, tierCall, backend>>

NextRoundTrip == AddStartNoted \/ AddResumeNoted \/ DeleteNoted

SpecRoundTrip == Init /\ [][NextRoundTrip]_vars

StableIndexRequest ==
    /\ \E k \in Keys, b \in StableBackends :
          /\ IndexStart("alice", k)
          /\ backend' = b
    /\ UNCHANGED <<adminVars, cp, tierCall, roundTrip>>

StablePageStep ==
    /\ IndexPage(Serve(backend, idx.page))
    /\ UNCHANGED <<adminVars, cp, callVars>>

\* the index handler against a stable backend
NextStable == StableIndexRequest \/ StablePageStep

SpecStable == Init /\ [][NextStable]_vars

TierCall ==
    /\ \E t \in 0..MaxRank : CallConvertTier(t)
    /\ UNCHANGED <<adminVars, idx, cp, backend, roundTrip>>

\* convert_tier on every rank up to MaxRank
NextTier == TierCall

SpecTier == Init /\ [][NextTier]_vars

(***************************************************************************)
(* Properties                                                              *)
(***************************************************************************)
IsSorted(list) == \A i \in 1..(Len(list) - 1) : list[i] <= list[i + 1]
NoDuplicate(list) ==
    \A i \in 1..Len(list), j \in 1..Len(list) : list[i] = list[j] => i = j
Occurrences(list, x) == Cardinality({ i \in 1..Len(list) : list[i] = x })
Pids(entries) == [i \in 1..Len(entries) |-> entries[i].pid]

\* C1: a result of compute_progress has len(solved_list) +
\* len(unsolved_list) = total = len(W.problems), and every id of W.problems
\* is in solved_list when it is in the solved set and in unsolved_list when
\* it is not, as often as it is in W.problems, and in the other list never.
C1_Partition ==
    cp.pc = "returned" =>
        LET r == cp.result
            problems == WORKBOOKS[cp.key]
        IN  /\ r.kind = "result"
            /\ Len(r.solved_list) + Len(r.unsolved_list) = r.total
            /\ r.total = Len(problems)
            /\ r.solved_cnt = Len(r.solved_list)
            /\ \A pid \in ProblemIds :
                  IF pid \in cp.solved_set
                  THEN /\ Occurrences(Pids(r.solved_list), pid)
                             = Occurrences(problems, pid)
                       /\ Occurrences(Pids(r.unsolved_list), pid) = 0
                  ELSE /\ Occurrences(Pids(r.unsolved_list), pid)
                             = Occurrences(problems, pid)
                       /\ Occurrences(Pids(r.solved_list), pid) = 0

\* a call returned with problems on both sides, one of them looked up in vain
C1_Witness ==
    /\ cp.pc = "returned"
    /\ Len(cp.result.solved_list) >= 1
    /\ Len(cp.result.unsolved_list) >= 2
    /\ \E i \in 1..Len(cp.result.unsolved_list) :
          cp.result.unsolved_list[i].name = PlaceholderName

\* C11: a result of compute_progress has 0 <= solved_cnt <= total, its rate
\* (the fraction num / den) lies in [0, 100], and the rate is 0 when total
\* is 0.
C11_RateInRange ==
    cp.pc = "returned" =>
        LET r == cp.result IN
        /\ 0 <= r.solved_cnt
        /\ r.solved_cnt <= r.total
        /\ r.rate.den > 0
        /\ 0 <= r.rate.num
        /\ r.rate.num <= 100 * r.rate.den
        /\ r.rate.num * r.total = r.solved_cnt * 100 * r.rate.den
        /\ r.total = 0 => r.rate.num = 0

\* a call returned with every problem of a workbook of two or more solved:
\* the rate is 100
C11_Witness ==
    /\ cp.pc = "returned"
    /\ cp.result.total >= 2
    /\ cp.result.solved_cnt = cp.result.total
    /\ cp.result.rate.num = 100 * cp.result.rate.den

\* the band index of the spec: (rank - 1) div 5, clamped to the six bands
ClampedBand(rank) ==
    LET group == (rank - 1) \div 5 IN IF group > 5 THEN 5 ELSE group

\* the label section 4.3 of the spec gives a rank
SpecLabel(rank) ==
    IF rank = 0 THEN Unclassified
    ELSE [raised |-> FALSE, band |-> TIER_NAMES[ClampedBand(rank) + 1],
          level |-> 5 - ((rank - 1) % 5)]

\* C12: convert_tier gives rank 0 the unclassified label and every rank >= 1
\* the name of band (rank - 1) div 5, clamped to the six named bands, with
\* level 5 - ((rank - 1) mod 5); a rank above 30 still gets a label of one of
\* the six bands.
C12_ConvertTierClamped ==
    tierCall.called => tierCall.result = SpecLabel(tierCall.tier)

\* The part of C12 the code keeps: the ranks 0 to 30 get the label of the
\* spec, with rank 1 bronze 5, rank 5 bronze 1, rank 6 silver 5 and rank 30
\* ruby 1; every rank above 30 raises IndexError.
ConvertTierUpTo30 ==
    tierCall.called =>
        /\ tierCall.tier <= 30 => tierCall.result = SpecLabel(tierCall.tier)
        /\ tierCall.tier > 30 => tierCall.result = IndexError
        /\ tierCall.tier = 1 =>
              tierCall.result = [raised |-> FALSE, band |-> "bronze", level |-> 5]
        /\ tierCall.tier = 5 =>
              tierCall.result = [raised |-> FALSE, band |-> "bronze", level |-> 1]
        /\ tierCall.tier = 6 =>
              tierCall.result = [raised |-> FALSE, band |-> "silver", level |-> 5]
        /\ tierCall.tier = 30 =>
              tierCall.result = [raised |-> FALSE, band |-> "ruby", level |-> 1]

NumEntries(lists) == Len(lists.solved_in) + Len(lists.unsolved_in)

\* the entry a step of compute_progress appended
NewEntry(before, after) ==
    IF Len(after.solved_in) > Len(before.solved_in)
    THEN after.solved_in[Len(after.solved_in)]
    ELSE after.unsolved_in[Len(after.unsolved_in)]

PlaceholderTier == [band |-> "unclassified", level |-> 0]

\* the lookup of outcome o is absorbed: the call goes on (to the next
\* problem or to its return) with one entry more, for the problem looked up,
\* and that entry has the placeholder name and the unclassified tier when
\* the lookup failed
Absorbed(o) ==
    /\ cp'.pc \in {"awaiting", "returned"}
    /\ NumEntries(cp'.lists) = NumEntries(cp.lists) + 1
    /\ NewEntry(cp.lists, cp'.lists).pid = cp.pid
    /\ o.kind # "payload" =>
          /\ NewEntry(cp.lists, cp'.lists).name = PlaceholderName
          /\ NewEntry(cp.lists, cp'.lists).tier = PlaceholderTier

\* C15: compute_progress never raises: whatever a metadata lookup ends with
\* (network error, non-200 status, empty payload, a payload of any rank),
\* the problem gets its entry, the placeholder one when the lookup failed,
\* and the computation goes on.
C15_NeverRaises ==
    [][\A o \in InfoOutcomes : ResumeComputeProgress(o) => Absorbed(o)]_vars

\* The part of C15 the code keeps: a failed lookup, and a payload with a
\* rank up to 30, is absorbed; a payload with a rank above 30 ends the call
\* with the IndexError of convert_tier.
LookupFailuresAbsorbed ==
    [][\A o \in InfoOutcomes :
          ResumeComputeProgress(o) =>
             IF o.kind = "payload" /\ o.level > 30
             THEN cp'.pc = "raised"
             ELSE Absorbed(o)]_vars

\* the results received once the page in flight has answered
FetchedThrough(b, page) ==
    IF page * b.size < Len(b.ids) THEN page * b.size ELSE Len(b.ids)

\* C16: get_solved_set asks for the pages 1, 2, 3, ... one after another
\* and stops as soon as the page just received is empty or the results
\* received so far have reached the reported total: once all reported
\* results are there, no further page is requested.
C16_StopsWhenAllFetched ==
    [][(idx.pc = "paging" /\ idx' # idx) =>
          LET r == Serve(backend, idx.page) IN
          /\ (Len(r.items) = 0 \/ FetchedThrough(backend, idx.page) >= r.count)
                => idx'.pc = "done"
          /\ idx'.pc = "paging" => idx'.page = idx.page + 1]_vars

\* The part of C16 the code keeps: the pages are asked for in order, one at
\* a time; the loop stops at an empty page or when page * len(items) of the
\* page just received reaches the count; and at most one page is requested
\* after all results were received.
AtMostOneSurplusRequest ==
    /\ (idx.pc = "paging" /\ idx.page >= 2) =>
          (idx.page - 2) * backend.size < Len(backend.ids)
    /\ idx.pc = "paging" => idx.page >= 1

\* C17: against a stable backend (N results with N distinct problem ids, a
\* fixed page size, the count N on every page) get_solved_set returns the
\* set of exactly the N ids.
C17_ReturnsAllIds ==
    (idx.pc = "done" /\ backend # NoBackend) =>
        /\ idx.gs = "returned"
        /\ idx.solved_set = { backend.ids[i] : i \in 1..Len(backend.ids) }
        /\ Cardinality(idx.solved_set) = Len(backend.ids)

\* a call returned all the ids of a backend whose last page was partial,
\* after three pages or more
C17_Witness ==
    /\ idx.pc = "done"
    /\ idx.gs = "returned"
    /\ idx.page >= 3
    /\ Len(backend.ids) = MaxTotal
    /\ Len(backend.ids) % backend.size # 0
    /\ Cardinality(idx.solved_set) = MaxTotal

\* C18: in a result of compute_progress, solved_list is the ids of
\* W.problems that are in the solved set, in the order of W.problems, and
\* unsolved_list the ids that are not, in the order of W.problems.
C18_WorkbookOrderKept ==
    cp.pc = "returned" =>
        LET InSolved(pid) == pid \in cp.solved_set
            NotInSolved(pid) == pid \notin cp.solved_set
            problems == WORKBOOKS[cp.key]
        IN  /\ Pids(cp.result.solved_list) = SelectSeq(problems, InSolved)
            /\ Pids(cp.result.unsolved_list) = SelectSeq(problems, NotInSolved)

\* a call returned for a workbook that is not in ascending order, with two
\* different solved problems and an unsolved one between them
C18_Witness ==
    /\ cp.pc = "returned"
    /\ Len(WORKBOOKS[cp.key]) = 3
    /\ WORKBOOKS[cp.key][1] > WORKBOOKS[cp.key][3]
    /\ Pids(cp.result.solved_list) = <<WORKBOOKS[cp.key][1], WORKBOOKS[cp.key][3]>>
    /\ Pids(cp.result.unsolved_list) = <<WORKBOOKS[cp.key][2]>>

\* C19: when admin requests run between the awaits of a compute_progress
\* call on the same workbook, the result the call returns still has
\* len(solved_list) + len(unsolved_list) = total and solved_cnt <= total
\* (rate <= 100), and lists no id twice (for a workbook that holds no id
\* twice when the call returns).
C19_ConsistentUnderAdmin ==
    [][(cp'.pc = "returned" /\ cp' # cp) =>
          LET r == cp'.result IN
          /\ Len(r.solved_list) + Len(r.unsolved_list) = r.total
          /\ r.solved_cnt <= r.total
          /\ r.rate.num <= 100 * r.rate.den
          /\ NoDuplicate(WORKBOOKS'[cp'.key]) =>
                NoDuplicate(Pids(r.solved_list) \o Pids(r.unsolved_list))]_vars

\* C2: index ends in one of three outcomes: nothing set when handle or
\* workbook is absent; only an error when the workbook key is unknown or
\* get_solved_set failed; a computed ProgressResult and no error otherwise.
C2_ThreeOutcomes ==
    idx.pc = "done" =>
        LET given == Truthy(idx.handle) /\ Truthy(idx.workbook)
            known == idx.workbook \in DOMAIN WORKBOOKS
        IN  /\ ~given => idx.progress = NoProgress /\ idx.error = None
            /\ (given /\ (~known \/ idx.gs = "raised"))
                  => idx.error # None /\ idx.progress = NoProgress
            /\ (given /\ known /\ idx.gs = "returned")
                  => idx.progress.kind = "result" /\ idx.error = None

C4_NoDuplicateKept ==
    [][\A k \in Keys :
          NoDuplicate(WORKBOOKS[k]) => NoDuplicate(WORKBOOKS'[k])]_vars

\* of two adds of the same id that waited together, one has appended it and
\* the other still waits
C4_Witness ==
    \E k \in Keys :
        /\ resp.admin_message = MsgAdded
        /\ WORKBOOKS[k] = <<MinProblemId>>
        /\ CopiesIn(<<k, MinProblemId>>, pending) = 1

\* C5 as the spec states it: the document on disk is at all times a complete
\* snapshot, equal to the in-memory collection.
C5_AlwaysFullSnapshot == file.complete /\ file.doc = WORKBOOKS

\* C5, amended: while no save has failed since the last one that succeeded,
\* the document is complete and equals the in-memory collection; an
\* incomplete document is what a failed write left.
C5_SnapshotUnlessSaveFailed ==
    /\ lastSave \in {"none", "ok"} => file = Snapshot(WORKBOOKS)
    /\ ~file.complete => lastSave = "write_failed"

\* a delete was saved: the document is complete and holds the shortened list
C5_Witness ==
    /\ lastSave = "ok"
    /\ resp.admin_message = MsgDeleted
    /\ file = Snapshot(WORKBOOKS)

ValidationMessages ==
    {MsgBadAdminKey, MsgBadProblemId, MsgNoWorkbook, MsgNotOnJudge,
     MsgNotInWorkbook}

ValidationOutcome(r) ==
    r.admin_error \in ValidationMessages \/ r.admin_message = MsgAlreadyPresent

\* C6: when the request that ended last ended in a validation outcome, the
\* step into that state changed no workbook list and not the file, and the
\* request did not call save_workbooks_to_file.
C6_ValidationChangesNothing ==
    [][ValidationOutcome(resp') =>
          /\ WORKBOOKS' = WORKBOOKS
          /\ file' = file
          /\ lastSave' = lastSave
          /\ \A i \in 1..Len(resp'.trace) : resp'.trace[i] # "save"]_vars

\* a delete was refused because the list lacks the id, while the document
\* on disk was the incomplete one an earlier failed write had left
C6_Witness ==
    /\ resp.op = "delete"
    /\ resp.admin_error = MsgNotInWorkbook
    /\ ~file.complete

\* a problem id field that is all decimal digits, surrounding blanks aside,
\* and reads as an integer of at least 1000
ValidProblemIds ==
    { raw \in RawIds :
        LET t == Strip(raw) IN IsDecimal(t) /\ ParseInt(t) >= MinProblemId }
ValidProblemId(raw) == raw \in ValidProblemIds

\* the first check that fails, in the order of section 4.4 of the spec
FirstFailure(admin_key, raw, workbook, books) ==
    IF admin_key # ADMIN_KEY THEN "admin_key"
    ELSE IF ~ValidProblemId(raw) THEN "problem_id"
    ELSE IF workbook \notin DOMAIN books THEN "workbook"
    ELSE "none"

MessageOf(check) ==
    CASE check = "admin_key" -> MsgBadAdminKey
      [] check = "problem_id" -> MsgBadProblemId
      [] check = "workbook" -> MsgNoWorkbook

Pipeline == <<"admin_key", "problem_id", "workbook">>

ChecksUpTo(check) ==
    CASE check = "admin_key" -> SubSeq(Pipeline, 1, 1)
      [] check = "problem_id" -> SubSeq(Pipeline, 1, 2)
      [] check = "workbook" -> SubSeq(Pipeline, 1, 3)

\* C7: a request whose admin key, problem id or workbook key fails gets the
\* message of the first of these checks that fails and evaluates no later
\* check; an add calls problem_exists only when all three pass, and looks
\* for the id in the list only when problem_exists answered yes; a delete
\* looks for the id only when all three pass.
C7_ShortCircuit ==
    [][/\ (pending' = pending /\ WORKBOOKS' = WORKBOOKS) =>
            \A r \in AdminRequests :
               LET f == FirstFailure(r[1], r[2], r[3], WORKBOOKS) IN
               /\ (resp'.op = "add" /\ AddStart(r[1], r[2], r[3])) =>
                     /\ f # "none"
                     /\ resp'.admin_error = MessageOf(f)
                     /\ resp'.admin_message = None
                     /\ resp'.trace = ChecksUpTo(f)
               /\ (resp'.op = "delete" /\ DeleteProblem(r[1], r[2], r[3])) =>
                     IF f = "none"
                     THEN resp'.trace = Pipeline \o <<"membership">>
                     ELSE /\ resp'.admin_error = MessageOf(f)
                          /\ resp'.admin_message = None
                          /\ resp'.trace = ChecksUpTo(f)
       /\ (NumPending' > NumPending) =>
            \A r \in AdminRequests :
               AddStart(r[1], r[2], r[3]) =>
                  FirstFailure(r[1], r[2], r[3], WORKBOOKS) = "none"
       /\ (NumPending' < NumPending) =>
            \A kk \in Keys, p \in ProblemIds, o \in ExistsOutcomes :
               AddResume(kk, p, o) =>
                  /\ SubSeq(resp'.trace, 1, 4) = Pipeline \o <<"problem_exists">>
                  /\ o # "200" =>
                        /\ resp'.admin_error = MsgNotOnJudge
                        /\ resp'.trace = Pipeline \o <<"problem_exists">>
                        /\ WORKBOOKS' = WORKBOOKS
                  /\ o = "200" => resp'.trace[5] = "membership"]_vars

\* an add with a bad problem id was refused while another add waited for
\* problem_exists
C7_Witness ==
    /\ resp.op = "add"
    /\ resp.admin_error = MsgBadProblemId
    /\ NumPending = 1

\* C13: an add of an id the list already holds changes neither the list nor
\* the file and answers "already present"; after any add that got past
\* problem_exists the list holds the id, exactly once when it was not there
\* before, and the same add made again leaves that list as it is.
C13_AddIdempotent ==
    [][(NumPending' < NumPending) =>
          \A k \in Keys, p \in ProblemIds :
             AddResume(k, p, "200") =>
                LET once == WORKBOOKS'[k]
                    twice == IF AlreadyPresent(once, p) THEN once
                             ELSE AddToList(once, p)
                IN  /\ Occurrences(WORKBOOKS[k], p) >= 1 =>
                          /\ WORKBOOKS' = WORKBOOKS
                          /\ file' = file
                          /\ lastSave' = lastSave
                          /\ resp'.admin_message = MsgAlreadyPresent
                          /\ resp'.admin_error = None
                    /\ Occurrences(WORKBOOKS[k], p) = 0 =>
                          Occurrences(once, p) = 1
                    /\ twice = once]_vars

\* an add was answered "already present" for the one id of a list that the
\* latest save wrote
C13_Witness ==
    /\ resp.op = "add"
    /\ resp.admin_message = MsgAlreadyPresent
    /\ lastSave = "ok"
    /\ \E k \in Keys : WORKBOOKS[k] = <<MinProblemId>> /\ file.doc[k] = WORKBOOKS[k]

ExactlyOneSet(r) ==
    (r.admin_error # None /\ r.admin_message = None)
    \/ (r.admin_error = None /\ r.admin_message # None)

\* C14 as the spec states it: every add or delete request that ended has
\* exactly one of admin_error and admin_message set.
C14_ExactlyOne == resp.op # None => ExactlyOneSet(resp)

\* C14, amended: every add or delete request that ended with a response has
\* exactly one of admin_error and admin_message set; a request that ended
\* with neither is one whose save raised out of the handler.
C14_ExactlyOneUnlessSaveRaised ==
    resp.op # None =>
        IF resp.raised
        THEN /\ resp.admin_error = None
             /\ resp.admin_message = None
             /\ resp.trace[Len(resp.trace)] = "save"
             /\ lastSave = "write_failed"
        ELSE ExactlyOneSet(resp)

\* an add was refused by problem_exists, with only the error set, after the
\* save of an earlier request had raised
C14_Witness ==
    /\ resp.op = "add"
    /\ ~resp.raised
    /\ resp.admin_error = MsgNotOnJudge
    /\ resp.admin_message = None
    /\ lastSave = "write_failed"

\* C20 as it is stated: a saved add of an id x that the list L lacks,
\* followed by a saved delete of x, leaves the list exactly L and the file a
\* snapshot of the collection as it was before the add.
C20_RoundTripRestores ==
    roundTrip.phase = "restored" =>
        /\ WORKBOOKS[roundTrip.key] = roundTrip.before
        /\ file = Snapshot([WORKBOOKS EXCEPT ![roundTrip.key] = roundTrip.before])

\* C20, amended: a saved add of an id x that the list L lacks, followed by
\* a saved delete of x, leaves the list L sorted ascending, which is L
\* itself when L was ascending, and the file a snapshot of that collection.
C20_RoundTripRestoresSorted ==
    roundTrip.phase = "restored" =>
        /\ ~Contains(roundTrip.before, roundTrip.pid)
        /\ WORKBOOKS[roundTrip.key] = ListSort(roundTrip.before)
        /\ IsSorted(roundTrip.before) =>
              WORKBOOKS[roundTrip.key] = roundTrip.before
        /\ file = Snapshot(WORKBOOKS)

\* an id was added between two others of an ascending list and deleted
\* again: the list is as before
C20_Witness ==
    /\ roundTrip.phase = "restored"
    /\ Len(roundTrip.before) = 2
    /\ roundTrip.before[1] < roundTrip.pid
    /\ roundTrip.pid < roundTrip.before[2]
    /\ WORKBOOKS[roundTrip.key] = roundTrip.before

\* Every add or delete that commits changes exactly its own id in the list
\* as it is at that moment and saves that list; no earlier change is undone
\* by a request that started before it (no lost update).
NoLostUpdate ==
    [][\A k \in Keys :
          WORKBOOKS'[k] # WORKBOOKS[k] =>
             /\ \E p \in ProblemIds :
                   /\ Occurrences(WORKBOOKS'[k], p) - Occurrences(WORKBOOKS[k], p)
                         \in {1, -1}
                   /\ \A q \in ProblemIds \ {p} :
                         Occurrences(WORKBOOKS'[k], q) = Occurrences(WORKBOOKS[k], q)
             /\ file'.doc = WORKBOOKS']_vars

\* C9: every get_solved_set call ends: it returns or raises.
C9_Terminates == (idx.pc = "paging") ~> (idx.pc = "done")

\* a call returned after three pages
C9_Witness == idx.pc = "done" /\ idx.gs = "returned" /\ idx.page >= 3

\* C10: when a page request ends with a status other than 200 or with no
\* response, get_solved_set raises whatever it has gathered, no set is
\* returned, and index ends with an error string and no progress.
C10_FailureAbortsAll ==
    [][\A r \in SearchResponses :
          (IndexPage(r) /\ r.status # "200") =>
             /\ idx'.pc = "done"
             /\ idx'.gs = "raised"
             /\ idx'.solved_set = Unbound
             /\ idx'.error = MsgErrorOccurred
             /\ idx'.progress = NoProgress]_vars

\* a call raised on its second or a later page
C10_Witness ==
    /\ idx.pc = "done"
    /\ idx.gs = "raised"
    /\ idx.page >= 2
    /\ idx.error = MsgErrorOccurred

====
